---- MODULE Spec2Model ----
(***************************************************************************)
(* Room-Logger (app.py): the sign-in ledger.  The log is a list of events  *)
(* {id, name, action, timestamp}; the handlers sign, rfid_scan, remove and *)
(* edit rewrite it, get_state_at_timestamp and group_logs_csv_style read   *)
(* it, export and export_docx turn it into ten-field rows.                 *)
(*                                                                         *)
(* Strings are modelled by their parts.  A timestamp string is a record    *)
(*   [parts, date, hour, lz, minute, ap]                                   *)
(* parts  : how many fields split(" ", 2) yields (1, 2 or 3);              *)
(* date   : the first field; n >= 1 is the n-th calendar day written       *)
(*          YYYY-MM-DD, 0 is a field strptime("%Y-%m-%d") refuses;         *)
(* hour   : the digits before ":" as a number, -1 when they are no number; *)
(* lz     : the hour is written with two characters, the first one "0";    *)
(* minute : the digits after ":" as a number, -1 when they are no number   *)
(*          (none at all included), NoColon when the field holds no ":";   *)
(* ap     : the third field ("" when parts < 3).                           *)
(* A time string ("9:05 AM") is the record [hour, lz, minute, ap].         *)
(*                                                                         *)
(* logs is the stored log (room_logs.json), now the position of the clock, *)
(* resp what the last request answered, inflight the sign and rfid_scan    *)
(* requests that have loaded the log and not yet saved it.                 *)
(***************************************************************************)
EXTENDS Integers, Sequences, FiniteSets, TLC

VARIABLES logs, now, resp, inflight

vars == <<logs, now, resp, inflight>>

-----------------------------------------------------------------------------
(* Bounds of the model *)

\* longest log the handlers build (Spec)
MaxLogs == 2

\* longest list handed to get_state_at_timestamp (SpecResolver)
MaxEvents == 3

\* longest snapshot handed to group_logs_csv_style (SpecGroup)
MaxSnapshot == 5

\* longest snapshot handed to the export routes (SpecExport)
MaxExport == 4

\* longest snapshot remove is called on (SpecRemove)
MaxRemove == 4

\* longest snapshot with loosely written times handed to group_logs_csv_style (SpecGroupLoose)
MaxLoose == 4

-----------------------------------------------------------------------------
(* Values *)

\* Python's None and the empty string "", as values comparable with a time string
NoneVal == [none |-> TRUE]

EmptyStr == [empty |-> TRUE]

MinutesPerHour == 60

MinutesPerDay == 1440

\* datetime.min, below every instant of a date >= 1
DatetimeMin == 0

\* the minute of a time field without ":" ("9"): len(time_parts) is 1
NoColon == -2

TimeStr(hour, lz, minute, ap) == [hour |-> hour, lz |-> lz, minute |-> minute, ap |-> ap]

\* f"{date_str} {time}"
Timestamp(date, t) ==
  [parts |-> 3, date |-> date, hour |-> t.hour, lz |-> t.lz, minute |-> t.minute, ap |-> t.ap]

\* timestamp.split(" ", 1)[1], defined when the string holds a space
TimeOf(ts) == TimeStr(ts.hour, ts.lz, ts.minute, ts.ap)

\* str.upper() on the meridiem field
Upper(s) == IF s = "am" THEN "AM" ELSE IF s = "pm" THEN "PM" ELSE s

extract_date(timestamp) == timestamp.date

\* log["timestamp"].startswith(date_str)
StartsWith(timestamp, date_str) == timestamp.date = date_str

\* parse_timestamp_for_sorting without the branch that turns 12 AM into hour 0
ParseNoMidnight(timestamp) ==
  IF timestamp.parts < 3 THEN DatetimeMin
  ELSE IF timestamp.date < 1 THEN DatetimeMin
  ELSE IF timestamp.hour < 0 \/ (timestamp.minute < 0 /\ timestamp.minute # NoColon)
    THEN DatetimeMin
  ELSE LET minute == IF timestamp.minute = NoColon THEN 0 ELSE timestamp.minute
           hour == IF Upper(timestamp.ap) = "PM" /\ timestamp.hour # 12
                     THEN timestamp.hour + 12
                   ELSE timestamp.hour
       IN IF hour > 23 \/ minute > 59 THEN DatetimeMin
          ELSE timestamp.date * MinutesPerDay + hour * MinutesPerHour + minute

parse_timestamp_for_sorting(timestamp) ==
  IF timestamp.parts < 3 THEN DatetimeMin
  ELSE IF timestamp.date < 1 THEN DatetimeMin
  ELSE IF timestamp.hour < 0 \/ (timestamp.minute < 0 /\ timestamp.minute # NoColon)
    THEN DatetimeMin
  ELSE LET minute == IF timestamp.minute = NoColon THEN 0 ELSE timestamp.minute
           hour == IF Upper(timestamp.ap) = "PM" /\ timestamp.hour # 12
                     THEN timestamp.hour + 12
                   ELSE IF Upper(timestamp.ap) = "AM" /\ timestamp.hour = 12
                     THEN 0
                   ELSE timestamp.hour
       IN IF hour > 23 \/ minute > 59 THEN DatetimeMin
          ELSE timestamp.date * MinutesPerDay + hour * MinutesPerHour + minute

\* f"{hour}:{minute}" and the meridiem: the hour loses its leading zero, and a time
\* without ":" gets one, with no minute behind it
format_time_without_leading_zero(time_str) ==
  TimeStr(time_str.hour, FALSE,
          IF time_str.minute = NoColon THEN -1 ELSE time_str.minute, time_str.ap)

\* Strftime12 that takes the hour of noon for a morning hour
Strftime12NoonAm(h24, minute) ==
  LET h12 == IF h24 % 12 = 0 THEN 12 ELSE h24 % 12
  IN TimeStr(h12, h12 < 10, minute, IF h24 <= 12 THEN "AM" ELSE "PM")

\* now.strftime("%I:%M %p") and manual_dt.strftime("%I:%M %p"): 24-hour to 12-hour
Strftime12(h24, minute) ==
  LET h12 == IF h24 % 12 = 0 THEN 12 ELSE h24 % 12
  IN TimeStr(h12, h12 < 10, minute, IF h24 < 12 THEN "AM" ELSE "PM")

-----------------------------------------------------------------------------
(* sorted(logs, key=(parse_timestamp_for_sorting(timestamp), id)) *)

\* SortKeyLess that breaks a tie by the greater id first
SortKeyLessIdDescending(a, b) ==
  LET ka == parse_timestamp_for_sorting(a.timestamp)
      kb == parse_timestamp_for_sorting(b.timestamp)
  IN ka < kb \/ (ka = kb /\ a.id > b.id)

\* SortKeyLess on the parsed instant alone, without the id as tie-breaker
SortKeyLessNoId(a, b) ==
  parse_timestamp_for_sorting(a.timestamp) < parse_timestamp_for_sorting(b.timestamp)

SortKeyLess(a, b) ==
  LET ka == parse_timestamp_for_sorting(a.timestamp)
      kb == parse_timestamp_for_sorting(b.timestamp)
  IN ka < kb \/ (ka = kb /\ a.id < b.id)

RECURSIVE InsertSorted(_, _)
InsertSorted(s, e) ==
  IF s = <<>> THEN <<e>>
  ELSE IF SortKeyLess(e, s[Len(s)]) THEN Append(InsertSorted(SubSeq(s, 1, Len(s) - 1), e), s[Len(s)])
  ELSE Append(s, e)

RECURSIVE SortedLogs(_)
SortedLogs(s) ==
  IF s = <<>> THEN <<>>
  ELSE InsertSorted(SortedLogs(SubSeq(s, 1, Len(s) - 1)), s[Len(s)])

-----------------------------------------------------------------------------
(* get_state_at_timestamp *)

\* StateScan with the boundary exclusive: an event exactly at the target is left out
RECURSIVE StateScanExclusive(_, _, _, _)
StateScanExclusive(sorted_logs, i, target_time, state) ==
  IF i > Len(sorted_logs) THEN state
  ELSE IF parse_timestamp_for_sorting(sorted_logs[i].timestamp) < target_time
    THEN StateScanExclusive(sorted_logs, i + 1, target_time, sorted_logs[i].action)
  ELSE state

RECURSIVE StateScan(_, _, _, _)
StateScan(sorted_logs, i, target_time, state) ==
  IF i > Len(sorted_logs) THEN state
  ELSE IF parse_timestamp_for_sorting(sorted_logs[i].timestamp) <= target_time
    THEN StateScan(sorted_logs, i + 1, target_time, sorted_logs[i].action)
  ELSE state

\* get_state_at_timestamp that answers with the latest state, whatever the target
LatestState(ls, timestamp) ==
  StateScan(SortedLogs(ls), 1, MinutesPerDay * MinutesPerDay, "OUT")

get_state_at_timestamp(ls, timestamp) ==
  StateScan(SortedLogs(ls), 1, parse_timestamp_for_sorting(timestamp), "OUT")

-----------------------------------------------------------------------------
(* group_logs_csv_style *)

\* the 4 of range(0, len(pairs), 4) and pairs[i:i+4]
PairsPerRow == 4

\* the 10 of "while len(row) < 10"
RowFields == 10

\* strftime("%b") + ". " + day of month; the string itself when it is no date.
\* The dates of the model lie within one year, where the format is one-to-one.
format_date_for_display(date_str) ==
  IF date_str >= 1 THEN [fmt |-> "b. d", day |-> date_str]
  ELSE [fmt |-> "raw", day |-> date_str]

\* log["timestamp"].split(" ", 1)[1] raises IndexError on a string without a space
SplitRaises(ls) == \E i \in 1..Len(ls) : ls[i].timestamp.parts < 2

BucketKey(log) == <<log.name, extract_date(log.timestamp)>>

\* GroupedKeys that puts a new key in front of those it has
RECURSIVE GroupedKeysNewestFirst(_, _, _)
GroupedKeysNewestFirst(sorted_logs, i, keys) ==
  IF i > Len(sorted_logs) THEN keys
  ELSE IF \E k \in 1..Len(keys) : keys[k] = BucketKey(sorted_logs[i])
    THEN GroupedKeysNewestFirst(sorted_logs, i + 1, keys)
  ELSE GroupedKeysNewestFirst(sorted_logs, i + 1, <<BucketKey(sorted_logs[i])>> \o keys)

\* the keys of the dict "grouped", in insertion order
RECURSIVE GroupedKeys(_, _, _)
GroupedKeys(sorted_logs, i, keys) ==
  IF i > Len(sorted_logs) THEN keys
  ELSE IF \E k \in 1..Len(keys) : keys[k] = BucketKey(sorted_logs[i])
    THEN GroupedKeys(sorted_logs, i + 1, keys)
  ELSE GroupedKeys(sorted_logs, i + 1, Append(keys, BucketKey(sorted_logs[i])))

\* grouped[key]: the (action, time) of the key's logs, in sorted order
RECURSIVE GroupedEvents(_, _, _)
GroupedEvents(sorted_logs, i, key) ==
  IF i > Len(sorted_logs) THEN <<>>
  ELSE IF BucketKey(sorted_logs[i]) = key
    THEN <<[action |-> sorted_logs[i].action,
            time |-> format_time_without_leading_zero(TimeOf(sorted_logs[i].timestamp))]>>
         \o GroupedEvents(sorted_logs, i + 1, key)
  ELSE GroupedEvents(sorted_logs, i + 1, key)

\* Python's truth value of current_in: neither None nor ""
Truthy(v) == v # NoneVal /\ v # EmptyStr

\* PairStep whose IN overwrites a pending IN without emitting its pair
PairStepDropsPending(st, ev) ==
  IF ev.action = "IN"
    THEN [pairs |-> st.pairs, current_in |-> ev.time]
  ELSE IF ev.action = "OUT"
    THEN IF Truthy(st.current_in)
           THEN [pairs |-> Append(st.pairs, <<st.current_in, ev.time>>), current_in |-> NoneVal]
           ELSE [pairs |-> Append(st.pairs, <<EmptyStr, ev.time>>), current_in |-> st.current_in]
  ELSE st

\* PairStep whose OUT emits the pair and forgets to clear current_in
PairStepKeepsIn(st, ev) ==
  IF ev.action = "IN"
    THEN [pairs |-> IF st.current_in # NoneVal
                      THEN Append(st.pairs, <<st.current_in, EmptyStr>>)
                      ELSE st.pairs,
          current_in |-> ev.time]
  ELSE IF ev.action = "OUT"
    THEN IF Truthy(st.current_in)
           THEN [pairs |-> Append(st.pairs, <<st.current_in, ev.time>>),
                 current_in |-> st.current_in]
           ELSE [pairs |-> Append(st.pairs, <<EmptyStr, ev.time>>), current_in |-> st.current_in]
  ELSE st

\* one turn of "for action, time in events" on the state (pairs, current_in)
PairStep(st, ev) ==
  IF ev.action = "IN"
    THEN [pairs |-> IF st.current_in # NoneVal
                      THEN Append(st.pairs, <<st.current_in, EmptyStr>>)
                      ELSE st.pairs,
          current_in |-> ev.time]
  ELSE IF ev.action = "OUT"
    THEN IF Truthy(st.current_in)
           THEN [pairs |-> Append(st.pairs, <<st.current_in, ev.time>>), current_in |-> NoneVal]
           ELSE [pairs |-> Append(st.pairs, <<EmptyStr, ev.time>>), current_in |-> st.current_in]
  ELSE st

RECURSIVE PairLoop(_, _, _)
PairLoop(events, i, st) ==
  IF i > Len(events) THEN st
  ELSE PairLoop(events, i + 1, PairStep(st, events[i]))

\* BuildPairs without the "Missing OUT at the end?" pair
BuildPairsNoTrailing(events) ==
  PairLoop(events, 1, [pairs |-> <<>>, current_in |-> NoneVal]).pairs

\* BuildPairs that closes every bucket with a trailing pair, a pending IN or not
BuildPairsTrailing(events) ==
  LET st == PairLoop(events, 1, [pairs |-> <<>>, current_in |-> NoneVal])
  IN Append(st.pairs, <<IF st.current_in # NoneVal THEN st.current_in ELSE EmptyStr, EmptyStr>>)

\* the pairs of one bucket, the "Missing OUT at the end?" pair included
BuildPairs(events) ==
  LET st == PairLoop(events, 1, [pairs |-> <<>>, current_in |-> NoneVal])
  IN IF st.current_in # NoneVal THEN Append(st.pairs, <<st.current_in, EmptyStr>>)
     ELSE st.pairs

Min(a, b) == IF a < b THEN a ELSE b

\* Chunks that slices pairs[i:i+3] while stepping by 4
RECURSIVE ChunksShort(_, _)
ChunksShort(pairs, i) ==
  IF i > Len(pairs) THEN <<>>
  ELSE <<SubSeq(pairs, i, Min(i + PairsPerRow - 2, Len(pairs)))>>
       \o ChunksShort(pairs, i + PairsPerRow)

\* [pairs[i:i+4] for i in range(0, len(pairs), 4)]
RECURSIVE Chunks(_, _)
Chunks(pairs, i) ==
  IF i > Len(pairs) THEN <<>>
  ELSE <<SubSeq(pairs, i, Min(i + PairsPerRow - 1, Len(pairs)))>> \o Chunks(pairs, i + PairsPerRow)

\* the rows (name, formatted_date, chunk) of one bucket
BucketRows(key, pairs) ==
  LET ch == Chunks(pairs, 1)
  IN [c \in 1..Len(ch) |-> <<key[1], format_date_for_display(key[2]), ch[c]>>]

RECURSIVE RowsOfBuckets(_, _, _)
RowsOfBuckets(sorted_logs, keys, k) ==
  IF k > Len(keys) THEN <<>>
  ELSE BucketRows(keys[k], BuildPairs(GroupedEvents(sorted_logs, 1, keys[k])))
       \o RowsOfBuckets(sorted_logs, keys, k + 1)

\* the result: what was raised ("" when nothing), and the rows returned
group_logs_csv_style(logs_raw) ==
  IF SplitRaises(logs_raw) THEN [raised |-> "IndexError", rows |-> <<>>]
  ELSE LET sorted_logs == SortedLogs(logs_raw)
       IN [raised |-> "",
           rows |-> RowsOfBuckets(sorted_logs, GroupedKeys(sorted_logs, 1, <<>>), 1)]

-----------------------------------------------------------------------------
(* export and export_docx.  A request argument that is absent or "" is 0. *)

\* date_obj.weekday() counts the days of a week; day 1 of the model is a Monday
DaysPerWeek == 7

\* "friday = monday + timedelta(days=4)"
FridayOffset == 4

\* (monday, friday) of the week of date_str; (None, None), here <<0, 0>>, when it is no date
get_week_range(date_str) ==
  IF date_str < 1 THEN <<0, 0>>
  ELSE LET monday == date_str - ((date_str - 1) % DaysPerWeek)
       IN <<monday, monday + FridayOffset>>

is_date_in_range(date_str, start_date, end_date) ==
  date_str >= 1 /\ start_date >= 1 /\ end_date >= 1
  /\ start_date <= date_str /\ date_str <= end_date

\* "for pin, pout in chunk: row.extend([pin, pout])"
RECURSIVE ExtendRow(_, _, _)
ExtendRow(row, chunk, i) ==
  IF i > Len(chunk) THEN row
  ELSE ExtendRow(row \o <<chunk[i][1], chunk[i][2]>>, chunk, i + 1)

\* PadRow that does not pad
PadRowNot(row) == row

\* "while len(row) < 10: row.extend(["", ""])"
RECURSIVE PadRow(_)
PadRow(row) == IF Len(row) < RowFields THEN PadRow(row \o <<EmptyStr, EmptyStr>>) ELSE row

\* row = [name, formatted_date], extended by the chunk, padded
FlatRow(name, date, chunk) ==
  PadRow(ExtendRow(<<name, format_date_for_display(date)>>, chunk, 1))

\* the rows of "for i in range(0, len(pairs), 4)" for the bound (name, date, pairs)
FlatRows(key, pairs) ==
  LET ch == Chunks(pairs, 1)
  IN [c \in 1..Len(ch) |-> FlatRow(key[1], key[2], ch[c])]

\* the filter of export: by date, else by week, else none
ExportFilter(ls, selected_date, week_date) ==
  IF selected_date # 0
    THEN SelectSeq(ls, LAMBDA log : extract_date(log.timestamp) = selected_date)
  ELSE IF week_date # 0
    THEN LET wr == get_week_range(week_date)
         IN IF wr[1] # 0 /\ wr[2] # 0
              THEN SelectSeq(ls, LAMBDA log :
                     is_date_in_range(extract_date(log.timestamp), wr[1], wr[2]))
            ELSE ls
  ELSE ls

\* export: the rows written to the CSV file (and kept in rows_for_docx).  The loop over
\* the buckets (lines 806-828) only builds pairs; the loop that writes the rows
\* (lines 831-844) stands after it, and runs once, on the name, date and pairs the last
\* turn left; with no bucket at all, pairs is not bound and reading it raises.
ExportCsv(ls, selected_date, week_date) ==
  LET filtered == ExportFilter(ls, selected_date, week_date)
      sorted_logs == SortedLogs(filtered)
      keys == GroupedKeys(sorted_logs, 1, <<>>)
  IN IF SplitRaises(filtered) THEN [raised |-> "IndexError", rows |-> <<>>]
     ELSE IF keys = <<>> THEN [raised |-> "UnboundLocalError", rows |-> <<>>]
     ELSE [raised |-> "",
           rows |-> FlatRows(keys[Len(keys)],
                             BuildPairs(GroupedEvents(sorted_logs, 1, keys[Len(keys)])))]

\* the keys of rows_by_date, in insertion order: the dates of the buckets that have rows
RECURSIVE RowDates(_, _, _, _)
RowDates(sorted_logs, keys, k, dates) ==
  IF k > Len(keys) THEN dates
  ELSE IF BuildPairs(GroupedEvents(sorted_logs, 1, keys[k])) = <<>>
            \/ \E d \in 1..Len(dates) : dates[d] = keys[k][2]
    THEN RowDates(sorted_logs, keys, k + 1, dates)
  ELSE RowDates(sorted_logs, keys, k + 1, Append(dates, keys[k][2]))

\* rows_by_date[date]: the rows of the buckets of that date, bucket by bucket
RECURSIVE RowsByDate(_, _, _, _)
RowsByDate(sorted_logs, keys, k, date) ==
  IF k > Len(keys) THEN <<>>
  ELSE IF keys[k][2] = date
    THEN FlatRows(keys[k], BuildPairs(GroupedEvents(sorted_logs, 1, keys[k])))
         \o RowsByDate(sorted_logs, keys, k + 1, date)
  ELSE RowsByDate(sorted_logs, keys, k + 1, date)

\* the dates "while current <= end" walks, those with rows only
RECURSIVE WeekDocs(_, _, _, _, _)
WeekDocs(sorted_logs, keys, dates, current, end) ==
  IF current > end THEN <<>>
  ELSE IF \E d \in 1..Len(dates) : dates[d] = current
    THEN <<[date |-> current, rows |-> RowsByDate(sorted_logs, keys, 1, current)]>>
         \o WeekDocs(sorted_logs, keys, dates, current + 1, end)
  ELSE WeekDocs(sorted_logs, keys, dates, current + 1, end)

\* export_docx: the calls _write_docx_for_date(rows, date, path) it makes, in order
ExportDocx(ls, selected_date, week_date) ==
  LET filtered == ExportFilter(ls, selected_date, week_date)
      sorted_logs == SortedLogs(filtered)
      keys == GroupedKeys(sorted_logs, 1, <<>>)
      dates == RowDates(sorted_logs, keys, 1, <<>>)
      wr == get_week_range(week_date)
  IN IF selected_date # 0 /\ filtered = <<>> THEN [raised |-> "", outcome |-> "no_logs", rows |-> <<>>]
     ELSE IF selected_date = 0 /\ week_date # 0 /\ wr[1] # 0 /\ filtered = <<>>
       THEN [raised |-> "", outcome |-> "no_logs", rows |-> <<>>]
     ELSE IF selected_date = 0 /\ week_date # 0 /\ wr[1] = 0
       THEN [raised |-> "UnboundLocalError", outcome |-> "raised", rows |-> <<>>]
     ELSE IF SplitRaises(filtered) THEN [raised |-> "IndexError", outcome |-> "raised", rows |-> <<>>]
     ELSE IF selected_date # 0
       THEN IF \E d \in 1..Len(dates) : dates[d] = selected_date
              THEN [raised |-> "", outcome |-> "generated",
                    rows |-> <<[date |-> selected_date,
                                rows |-> RowsByDate(sorted_logs, keys, 1, selected_date)]>>]
            ELSE [raised |-> "", outcome |-> "no_data", rows |-> <<>>]
     ELSE IF week_date # 0
       THEN [raised |-> "", outcome |-> "generated",
             rows |-> WeekDocs(sorted_logs, keys, dates, wr[1], wr[2])]
     ELSE [raised |-> "", outcome |-> "generated",
           rows |-> [d \in 1..Len(dates) |->
                       [date |-> dates[d], rows |-> RowsByDate(sorted_logs, keys, 1, dates[d])]]]

-----------------------------------------------------------------------------
(* The environment of the handlers *)

\* the names the sign form posts
Names == {"A", "B"}

\* the action the sign form posts: request.form["action"] is stored as posted
FormActions == {"IN", "OUT", "BREAK"}

\* datetime.now() at the successive moments of the run: (date, 24-hour hour, minute)
ClockTicks ==
  << [date |-> 1, hour |-> 13, minute |-> 5],
     [date |-> 2, hour |-> 0, minute |-> 10] >>

\* the manual_time field: an <input type="time"> value "HH:MM", or absent
ManualTimes == {[hour |-> 9, minute |-> 0]}

ManualInputs == ManualTimes \cup {NoneVal}

\* rfid_cards.json; "" is a scan that read nothing
RfidIds == {"", "card-A", "card-X"}

load_rfid_cards == [c \in {"card-A"} |-> "A"]

\* get_name_from_rfid that hands an unknown card to the first person
GetNameOrFirst(rfid_id) ==
  IF rfid_id \in DOMAIN load_rfid_cards THEN load_rfid_cards[rfid_id] ELSE "A"

\* rfid_cards.get(rfid_id.strip(), None); None is "" here, "if not name" takes both alike
get_name_from_rfid(rfid_id) ==
  IF rfid_id \in DOMAIN load_rfid_cards THEN load_rfid_cards[rfid_id] ELSE ""

\* the timestamp field the edit form posts: any string
EditTimestamps ==
  { [parts |-> 3, date |-> 1, hour |-> 9, lz |-> FALSE, minute |-> 0, ap |-> "AM"],
    [parts |-> 1, date |-> 1, hour |-> -1, lz |-> FALSE, minute |-> -1, ap |-> ""] }

Response(op, outcome, name, action, timestamp, state) ==
  [op |-> op, outcome |-> outcome, name |-> name, action |-> action,
   timestamp |-> timestamp, state |-> state, arg |-> -1, rows |-> <<>>]

NoResponse == Response("", "", "", "", NoneVal, "")

-----------------------------------------------------------------------------
(* sign *)

\* "Determine timestamp"
SignTimestamp(clock, use_current_time, manual_time) ==
  LET time_str ==
        IF use_current_time THEN Strftime12(clock.hour, clock.minute)
        ELSE IF Truthy(manual_time) THEN Strftime12(manual_time.hour, manual_time.minute)
        ELSE Strftime12(clock.hour, clock.minute)
  IN Timestamp(clock.date, format_time_without_leading_zero(time_str))

\* "Get today's logs for validation (for this person)"
TodaysLogsOf(ls, name, date_str) ==
  SelectSeq(ls, LAMBDA log : log.name = name /\ StartsWith(log.timestamp, date_str))

TodaysLogs(ls, date_str) ==
  SelectSeq(ls, LAMBDA log : StartsWith(log.timestamp, date_str))

\* SignRules without rule 2
SignRulesNoRule2(action, state_at_timestamp) ==
  IF action = "OUT" /\ state_at_timestamp # "IN" THEN "rule1" ELSE "saved"

\* "Validation rules": Rule 1, Rule 2, "Valid -> save log"
SignRules(action, state_at_timestamp) ==
  IF action = "OUT" /\ state_at_timestamp # "IN" THEN "rule1"
  ELSE IF action = "IN" /\ state_at_timestamp = "IN" THEN "rule2"
  ELSE "saved"

\* what a sign request does to the log ls: how it ends, and the state it validated against
SignResult(ls, clock, name, action, timestamp) ==
  LET state_at_timestamp == get_state_at_timestamp(TodaysLogsOf(ls, name, clock.date), timestamp)
      grouped_rows == group_logs_csv_style(TodaysLogs(ls, clock.date))
  IN [outcome |-> IF grouped_rows.raised # "" THEN "raised"
                  ELSE SignRules(action, state_at_timestamp),
      state |-> state_at_timestamp]

\* NewLog that numbers from 1
NewLogFromOne(ls, name, action, timestamp) ==
  [id |-> Len(ls) + 1, name |-> name, action |-> action, timestamp |-> timestamp]

NewLog(ls, name, action, timestamp) ==
  [id |-> Len(ls), name |-> name, action |-> action, timestamp |-> timestamp]

\* SignSave that appends before the rules are looked at
SignSaveAlways(ls, outcome, name, action, timestamp) ==
  Append(ls, NewLog(ls, name, action, timestamp))

\* "Valid -> save log": the log save_logs writes; a rejected or failed request writes none
SignSave(ls, outcome, name, action, timestamp) ==
  IF outcome = "saved" THEN Append(ls, NewLog(ls, name, action, timestamp)) ELSE ls

sign(name, action, use_current_time, manual_time) ==
  LET clock == ClockTicks[now]
      timestamp == SignTimestamp(clock, use_current_time, manual_time)
      r == SignResult(logs, clock, name, action, timestamp)
  IN /\ r.outcome = "saved" => Len(logs) < MaxLogs
     /\ logs' = SignSave(logs, r.outcome, name, action, timestamp)
     /\ resp' = Response("sign", r.outcome, name, action, timestamp, r.state)
     /\ UNCHANGED <<now, inflight>>

-----------------------------------------------------------------------------
(* rfid_scan *)

\* RfidAction that signs IN whatever the state
RfidActionAlwaysIn(state_at_timestamp) == "IN"

\* "Auto-determine action"
RfidAction(state_at_timestamp) == IF state_at_timestamp = "IN" THEN "OUT" ELSE "IN"

\* "Validate the action"
RfidRules(action, state_at_timestamp) ==
  IF action = "OUT" /\ state_at_timestamp # "IN" THEN "rule1"
  ELSE IF action = "IN" /\ state_at_timestamp = "IN" THEN "rule2"
  ELSE "saved"

rfid_scan(rfid_id) ==
  LET name == get_name_from_rfid(rfid_id)
      clock == ClockTicks[now]
      timestamp ==
        Timestamp(clock.date, format_time_without_leading_zero(Strftime12(clock.hour, clock.minute)))
  IN IF rfid_id = ""
       THEN /\ resp' = Response("rfid_scan", "no_card", "", "", NoneVal, "")
            /\ UNCHANGED <<logs, now, inflight>>
     ELSE IF name = ""
       THEN /\ resp' = Response("rfid_scan", "not_registered", "", "", NoneVal, "")
            /\ UNCHANGED <<logs, now, inflight>>
     ELSE LET state_at_timestamp ==
                get_state_at_timestamp(TodaysLogsOf(logs, name, clock.date), timestamp)
              action == RfidAction(state_at_timestamp)
              outcome == RfidRules(action, state_at_timestamp)
          IN /\ outcome = "saved" => Len(logs) < MaxLogs
             /\ logs' = IF outcome = "saved"
                          THEN Append(logs, NewLog(logs, name, action, timestamp))
                        ELSE logs
             /\ resp' = Response("rfid_scan", outcome, name, action, timestamp, state_at_timestamp)
             /\ UNCHANGED <<now, inflight>>

-----------------------------------------------------------------------------
(* remove and edit *)

\* Renumber that leaves the ids as they were
RenumberNot(ls) == ls

\* Renumber that hands the list back in reverse
RenumberReversed(ls) == [i \in 1..Len(ls) |-> [ls[Len(ls) + 1 - i] EXCEPT !.id = i - 1]]

\* "for i, log in enumerate(logs): log["id"] = i"
Renumber(ls) == [i \in 1..Len(ls) |-> [ls[i] EXCEPT !.id = i - 1]]

RemoveLogs(ls, log_id) == Renumber(SelectSeq(ls, LAMBDA log : log.id # log_id))

remove(log_id) ==
  /\ logs' = RemoveLogs(logs, log_id)
  /\ resp' = [Response("remove", "saved", "", "", NoneVal, "") EXCEPT !.arg = log_id]
  /\ UNCHANGED <<now, inflight>>

\* EditLogs that writes the timestamp into every event of the list
EditLogsEvery(ls, log_id, new_ts) ==
  [i \in 1..Len(ls) |-> [ls[i] EXCEPT !.timestamp = new_ts]]

\* "for log in logs: if log["id"] == log_id: ...; break": the first match only
EditLogs(ls, log_id, new_ts) ==
  [i \in 1..Len(ls) |->
     IF ls[i].id = log_id /\ \A j \in 1..(i - 1) : ls[j].id # log_id
       THEN [ls[i] EXCEPT !.timestamp = new_ts]
     ELSE ls[i]]

edit(log_id, new_ts) ==
  /\ logs' = EditLogs(logs, log_id, new_ts)
  /\ resp' = [Response("edit", "saved", "", "", new_ts, "") EXCEPT !.arg = log_id]
  /\ UNCHANGED <<now, inflight>>

\* time passes between two requests
Tick ==
  /\ now < Len(ClockTicks)
  /\ now' = now + 1
  /\ resp' = NoResponse
  /\ UNCHANGED <<logs, inflight>>

-----------------------------------------------------------------------------
(* sign and rfid_scan in two steps, load_logs() to the rules and save_logs(), *)
(* so that the requests of two threads interleave                             *)

\* the threads that serve requests
Slots == {1, 2}

\* a thread that serves no request
IdleRequest ==
  [pc |-> "idle", op |-> "", name |-> "", action |-> "", timestamp |-> NoneVal,
   loaded |-> <<>>, outcome |-> "", state |-> ""]

\* no request in flight; raced: two requests have held a loaded log at the same time;
\* accepted: how many requests have passed the rules and saved
NoRequests == [req |-> [r \in Slots |-> IdleRequest], raced |-> FALSE, accepted |-> 0]

\* another thread holds a log it loaded and has not saved
OthersLoaded(r) == \E q \in Slots \ {r} : inflight.req[q].pc = "loaded"

\* sign with the current time, from load_logs() to the validation rules
SignLoad(r, name, action) ==
  LET clock == ClockTicks[now]
      timestamp == SignTimestamp(clock, TRUE, NoneVal)
      res == SignResult(logs, clock, name, action, timestamp)
  IN /\ inflight.req[r].pc = "idle"
     /\ Len(logs) < MaxLogs
     /\ inflight' = [inflight EXCEPT
                       !.req[r] = [pc |-> "loaded", op |-> "sign", name |-> name,
                                   action |-> action, timestamp |-> timestamp,
                                   loaded |-> logs, outcome |-> res.outcome,
                                   state |-> res.state],
                       !.raced = @ \/ OthersLoaded(r)]
     /\ resp' = NoResponse
     /\ UNCHANGED <<logs, now>>

\* rfid_scan, from the card lookup and load_logs() to "Validate the action"
RfidLoad(r, rfid_id) ==
  LET name == get_name_from_rfid(rfid_id)
      clock == ClockTicks[now]
      timestamp == SignTimestamp(clock, TRUE, NoneVal)
      state_at_timestamp == get_state_at_timestamp(TodaysLogsOf(logs, name, clock.date), timestamp)
      action == RfidAction(state_at_timestamp)
  IN /\ inflight.req[r].pc = "idle"
     /\ Len(logs) < MaxLogs
     /\ IF rfid_id = "" \/ name = ""
          THEN /\ resp' = Response("rfid_scan", IF rfid_id = "" THEN "no_card" ELSE "not_registered",
                                    "", "", NoneVal, "")
               /\ UNCHANGED <<logs, now, inflight>>
        ELSE /\ inflight' = [inflight EXCEPT
                               !.req[r] = [pc |-> "loaded", op |-> "rfid_scan", name |-> name,
                                           action |-> action, timestamp |-> timestamp,
                                           loaded |-> logs,
                                           outcome |-> RfidRules(action, state_at_timestamp),
                                           state |-> state_at_timestamp],
                               !.raced = @ \/ OthersLoaded(r)]
             /\ resp' = NoResponse
             /\ UNCHANGED <<logs, now>>

\* "Valid -> save log": the request appends to the list it loaded and writes that list
\* over the file; a rejected or failed request writes nothing
SaveLoaded(r) ==
  LET q == inflight.req[r]
  IN /\ q.pc = "loaded"
     /\ logs' = IF q.outcome = "saved"
                  THEN SignSave(q.loaded, q.outcome, q.name, q.action, q.timestamp)
                ELSE logs
     /\ inflight' = [inflight EXCEPT
                       !.req[r] = IdleRequest,
                       !.accepted = IF q.outcome = "saved" THEN @ + 1 ELSE @]
     /\ resp' = Response(q.op, q.outcome, q.name, q.action, q.timestamp, q.state)
     /\ UNCHANGED now

-----------------------------------------------------------------------------
(* The handlers, one request at a time *)

Init ==
  /\ logs = <<>>
  /\ now = 1
  /\ resp = NoResponse
  /\ inflight = NoRequests

Next ==
  \/ \E name \in Names, action \in FormActions, use_current_time \in BOOLEAN,
        manual_time \in ManualInputs : sign(name, action, use_current_time, manual_time)
  \/ \E rfid_id \in RfidIds : rfid_scan(rfid_id)
  \/ \E log_id \in 0..MaxLogs : remove(log_id)
  \/ \E log_id \in 0..MaxLogs, new_ts \in EditTimestamps : edit(log_id, new_ts)
  \/ Tick

Spec == Init /\ [][Next]_vars

-----------------------------------------------------------------------------
(* sign and rfid_scan served by two threads (SpecThreads) *)

NextThreads ==
  \/ \E r \in Slots, name \in Names, action \in FormActions : SignLoad(r, name, action)
  \/ \E r \in Slots, rfid_id \in RfidIds : RfidLoad(r, rfid_id)
  \/ \E r \in Slots : SaveLoaded(r)
  \/ Tick

SpecThreads == Init /\ [][NextThreads]_vars

-----------------------------------------------------------------------------
(* sign alone, one request at a time, with the current or a manual time (SpecSign) *)

NextSign ==
  \/ \E name \in Names, action \in FormActions, use_current_time \in BOOLEAN,
        manual_time \in ManualInputs : sign(name, action, use_current_time, manual_time)
  \/ Tick

SpecSign == Init /\ [][NextSign]_vars

-----------------------------------------------------------------------------
(* sign with the current time and rfid_scan, one request at a time, no edit and no *)
(* remove (SpecNow)                                                                *)

NextNow ==
  \/ \E name \in Names, action \in FormActions, use_current_time \in BOOLEAN :
        sign(name, action, use_current_time, NoneVal)
  \/ \E rfid_id \in RfidIds : rfid_scan(rfid_id)
  \/ Tick

SpecNow == Init /\ [][NextNow]_vars

-----------------------------------------------------------------------------
(* "Determine timestamp" of sign on every time of the day (SpecTimestamp) *)

HoursPerDay == 24

\* the values of <input type="time">: "HH:MM" of every minute of the day
DayTimes == [hour : 0..(HoursPerDay - 1), minute : 0..(MinutesPerHour - 1)]

\* lines 647-666 of sign: the timestamp the request would store
DetermineTimestamp(use_current_time, manual_time) ==
  /\ resp' = [Response("sign_timestamp", "returned", "", "",
                        SignTimestamp(ClockTicks[now], use_current_time, manual_time), "")
                EXCEPT !.arg = [use_current_time |-> use_current_time,
                                manual_time |-> manual_time]]
  /\ UNCHANGED <<logs, now, inflight>>

NextTimestamp ==
  \/ \E use_current_time \in BOOLEAN, manual_time \in DayTimes \cup {NoneVal} :
        DetermineTimestamp(use_current_time, manual_time)
  \/ Tick

SpecTimestamp == Init /\ [][NextTimestamp]_vars

-----------------------------------------------------------------------------
(* get_state_at_timestamp on any list of one person's events (SpecResolver) *)

ResolverActions == {"IN", "OUT"}

\* 12:30 PM and 1:05 PM of day 1, and a string that is only a date
ResolverTimestamps ==
  { [parts |-> 3, date |-> 1, hour |-> 12, lz |-> FALSE, minute |-> 30, ap |-> "PM"],
    [parts |-> 3, date |-> 1, hour |-> 1, lz |-> FALSE, minute |-> 5, ap |-> "PM"],
    [parts |-> 1, date |-> 1, hour |-> -1, lz |-> FALSE, minute |-> -1, ap |-> ""] }

\* the targets: the above, and 9:00 AM of day 1, before all of them
ResolverTargets ==
  ResolverTimestamps
    \cup {[parts |-> 3, date |-> 1, hour |-> 9, lz |-> FALSE, minute |-> 0, ap |-> "AM"]}

\* the caller hands over one more event, under an id no other event has
ResolverInput(id, action, timestamp) ==
  /\ Len(logs) < MaxEvents
  /\ \A i \in 1..Len(logs) : logs[i].id # id
  /\ logs' = Append(logs, [id |-> id, name |-> "A", action |-> action, timestamp |-> timestamp])
  /\ resp' = NoResponse
  /\ UNCHANGED <<now, inflight>>

CallGetState(timestamp) ==
  /\ resp' = Response("get_state_at_timestamp", "returned", "A", "", timestamp,
                      get_state_at_timestamp(logs, timestamp))
  /\ UNCHANGED <<logs, now, inflight>>

NextResolver ==
  \/ \E id \in 0..(MaxEvents - 1), action \in ResolverActions, timestamp \in ResolverTimestamps :
        ResolverInput(id, action, timestamp)
  \/ \E timestamp \in ResolverTargets : CallGetState(timestamp)

SpecResolver == Init /\ [][NextResolver]_vars

-----------------------------------------------------------------------------
(* group_logs_csv_style on any snapshot of the log (SpecGroup); export and export_docx  *)
(* on any snapshot of the log (SpecExport)                                             *)

T0900 == [parts |-> 3, date |-> 1, hour |-> 9, lz |-> FALSE, minute |-> 0, ap |-> "AM"]

T1305 == [parts |-> 3, date |-> 1, hour |-> 1, lz |-> FALSE, minute |-> 5, ap |-> "PM"]

T0010 == [parts |-> 3, date |-> 2, hour |-> 12, lz |-> FALSE, minute |-> 10, ap |-> "AM"]

\* "<day 1> 9:00": no meridiem, so it parses to datetime.min
T0900NoMeridiem == [parts |-> 2, date |-> 1, hour |-> 9, lz |-> FALSE, minute |-> 0, ap |-> ""]

\* the events a snapshot is built of
SnapshotEvents ==
  { [name |-> "A", action |-> "IN", timestamp |-> T0900],
    [name |-> "A", action |-> "OUT", timestamp |-> T0900],
    [name |-> "A", action |-> "IN", timestamp |-> T1305],
    [name |-> "A", action |-> "OUT", timestamp |-> T1305],
    [name |-> "B", action |-> "IN", timestamp |-> T0900],
    [name |-> "B", action |-> "OUT", timestamp |-> T0010],
    [name |-> "B", action |-> "IN", timestamp |-> T0900NoMeridiem] }

\* (date, week_date) of an export request: everything, day 1, the week of day 1
ExportArgs == {<<0, 0>>, <<1, 0>>, <<0, 1>>}

\* load_logs() returns a log one event longer; ids are positions, as the handlers keep them
SnapshotInput(e, longest) ==
  /\ Len(logs) < longest
  /\ logs' = Append(logs, NewLog(logs, e.name, e.action, e.timestamp))
  /\ resp' = NoResponse
  /\ UNCHANGED <<now, inflight>>

CallGroup ==
  LET r == group_logs_csv_style(logs)
  IN /\ resp' = [Response("group_logs_csv_style", IF r.raised # "" THEN "raised" ELSE "returned",
                          "", "", NoneVal, "") EXCEPT !.rows = r.rows]
     /\ UNCHANGED <<logs, now, inflight>>

export(selected_date, week_date) ==
  LET r == ExportCsv(logs, selected_date, week_date)
  IN /\ resp' = [Response("export", IF r.raised # "" THEN r.raised ELSE "sent",
                          "", "", NoneVal, "")
                   EXCEPT !.rows = r.rows, !.arg = <<selected_date, week_date>>]
     /\ UNCHANGED <<logs, now, inflight>>

export_docx(selected_date, week_date) ==
  LET r == ExportDocx(logs, selected_date, week_date)
  IN /\ resp' = [Response("export_docx", r.outcome, "", "", NoneVal, "")
                   EXCEPT !.rows = r.rows, !.arg = <<selected_date, week_date>>]
     /\ UNCHANGED <<logs, now, inflight>>

NextGroup ==
  \/ \E e \in SnapshotEvents : SnapshotInput(e, MaxSnapshot)
  \/ CallGroup

SpecGroup == Init /\ [][NextGroup]_vars

NextExport ==
  \/ \E e \in SnapshotEvents : SnapshotInput(e, MaxExport)
  \/ \E a \in ExportArgs : export(a[1], a[2])
  \/ \E a \in ExportArgs : export_docx(a[1], a[2])

SpecExport == Init /\ [][NextExport]_vars

-----------------------------------------------------------------------------
(* remove on any snapshot of the log (SpecRemove) *)

NextRemove ==
  \/ \E e \in SnapshotEvents : SnapshotInput(e, MaxRemove)
  \/ \E log_id \in 0..MaxRemove : remove(log_id)

SpecRemove == Init /\ [][NextRemove]_vars

-----------------------------------------------------------------------------
(* group_logs_csv_style on snapshots whose times are loosely written (SpecGroupLoose) *)

T0800 == [parts |-> 3, date |-> 1, hour |-> 8, lz |-> FALSE, minute |-> 0, ap |-> "AM"]

\* "<day 1> 9 AM": no ":", the minute defaults to 0 and the string parses to 9:00
T09NoColon == [parts |-> 3, date |-> 1, hour |-> 9, lz |-> FALSE, minute |-> NoColon, ap |-> "AM"]

\* "<day 1> 01:05 PM": the hour with a leading zero
T1305LeadingZero == [parts |-> 3, date |-> 1, hour |-> 1, lz |-> TRUE, minute |-> 5, ap |-> "PM"]

LooseEvents ==
  { [name |-> "A", action |-> "IN", timestamp |-> T0800],
    [name |-> "A", action |-> "OUT", timestamp |-> T0800],
    [name |-> "A", action |-> "IN", timestamp |-> T09NoColon],
    [name |-> "A", action |-> "OUT", timestamp |-> T09NoColon],
    [name |-> "A", action |-> "OUT", timestamp |-> T1305LeadingZero],
    [name |-> "B", action |-> "IN", timestamp |-> T09NoColon] }

NextGroupLoose ==
  \/ \E e \in LooseEvents : SnapshotInput(e, MaxLoose)
  \/ CallGroup

SpecGroupLoose == Init /\ [][NextGroupLoose]_vars

-----------------------------------------------------------------------------
(* parse_timestamp_for_sorting on any timestamp string (SpecParse) *)

\* the date field: one strptime refuses, and two days
ParseDates == {0, 1, 2}

\* the hour digits: none, and hours inside and outside 1..12
ParseHours == {-1, 0, 1, 9, 11, 12, 13}

\* the minute digits: none, and minutes inside and outside 0..59
ParseMinutes == {-1, NoColon, 0, 30, 59, 60}

\* the third field
ParseMeridiems == {"AM", "PM", "am", "pm", "XM"}

\* "<date> <h>:<mm> <ap>", "<date> <h>:<mm>" and "<date>"
ParseInputs ==
  {[parts |-> 3, date |-> d, hour |-> h, lz |-> l, minute |-> m, ap |-> a] :
     d \in ParseDates, h \in ParseHours, l \in BOOLEAN, m \in ParseMinutes, a \in ParseMeridiems}
  \cup {[parts |-> 2, date |-> d, hour |-> h, lz |-> FALSE, minute |-> m, ap |-> ""] :
          d \in ParseDates, h \in ParseHours, m \in ParseMinutes}
  \cup {[parts |-> 1, date |-> d, hour |-> -1, lz |-> FALSE, minute |-> -1, ap |-> ""] :
          d \in ParseDates}

\* the written hour has a leading zero only when it has one digit
ParseArgs == {ts \in ParseInputs : ts.lz => ts.hour \in 0..9}

CallParse(timestamp) ==
  /\ resp' = [Response("parse_timestamp_for_sorting", "returned", "", "", timestamp, "")
                EXCEPT !.arg = parse_timestamp_for_sorting(timestamp)]
  /\ UNCHANGED <<logs, now, inflight>>

NextParse == \E timestamp \in ParseArgs : CallParse(timestamp)

SpecParse == Init /\ [][NextParse]_vars

-----------------------------------------------------------------------------
(* Claims *)

InstantOf(log) == parse_timestamp_for_sorting(log.timestamp)

\* a is below b in (parsed instant, id) order
TotalOrderLess(a, b) ==
  InstantOf(a) < InstantOf(b) \/ (InstantOf(a) = InstantOf(b) /\ a.id < b.id)

\* the positions of ls whose event has an instant <= that of timestamp
Qualifying(ls, timestamp) ==
  {i \in 1..Len(ls) : InstantOf(ls[i]) <= parse_timestamp_for_sorting(timestamp)}

\* the action of the greatest qualifying event, OUT when there is none
StateAt(ls, timestamp) ==
  LET q == Qualifying(ls, timestamp)
  IN IF q = {} THEN "OUT"
     ELSE ls[CHOOSE i \in q : \A j \in q \ {i} : TotalOrderLess(ls[j], ls[i])].action

\* C1: for every list of one person's events with pairwise-distinct ids and every target
\* T, get_state_at_timestamp returns the action of the event greatest in (instant, id)
\* order among those with instant <= T, and OUT when there is none; events after T
\* do not count.
C1_StateAtTimestamp ==
  resp.op = "get_state_at_timestamp" => resp.state = StateAt(logs, resp.timestamp)

\* C1 witness: a call answered IN by the larger id of two events at the target's own
\* instant, the larger id standing first in the list, with a third event after the target
C1_Witness ==
  /\ resp.op = "get_state_at_timestamp"
  /\ resp.state = "IN"
  /\ \E i, j, k \in 1..Len(logs) :
       /\ i < j
       /\ logs[i].id > logs[j].id
       /\ logs[i].action = "IN" /\ logs[j].action = "OUT"
       /\ InstantOf(logs[i]) = InstantOf(logs[j])
       /\ InstantOf(logs[i]) = parse_timestamp_for_sorting(resp.timestamp)
       /\ InstantOf(logs[k]) > parse_timestamp_for_sorting(resp.timestamp)

\* the candidate's prior state: the person's events of today, at the candidate's timestamp
PriorState(ls, clock, name, timestamp) ==
  StateAt(TodaysLogsOf(ls, name, clock.date), timestamp)

\* the actions of the data model
Actions == {"IN", "OUT"}

\* C2: sign accepts a candidate event (its action IN or OUT, on a log of such events) if
\* and only if its action differs from the prior state at the candidate's timestamp: an
\* OUT is rejected when the prior state is not IN, an IN when it is IN, any other accepted.
C2_SignAcceptsIffDiffers ==
  [][\A name \in Names, action \in Actions, use_current_time \in BOOLEAN,
        manual_time \in ManualInputs :
       (sign(name, action, use_current_time, manual_time)
          /\ \A i \in 1..Len(logs) : logs[i].action \in Actions)
         => LET clock == ClockTicks[now]
                timestamp == SignTimestamp(clock, use_current_time, manual_time)
            IN (resp'.outcome = "saved")
                 <=> (action # PriorState(logs, clock, name, timestamp))]_vars

\* the events of ls at other positions than those of S
RECURSIVE Without(_, _, _)
Without(ls, S, i) ==
  IF i > Len(ls) THEN <<>>
  ELSE IF i \in S THEN Without(ls, S, i + 1)
  ELSE <<ls[i]>> \o Without(ls, S, i + 1)

\* the positions of the person's events of today that lie after the timestamp
LaterToday(ls, clock, name, timestamp) ==
  {i \in 1..Len(ls) :
     /\ ls[i].name = name
     /\ StartsWith(ls[i].timestamp, clock.date)
     /\ InstantOf(ls[i]) > parse_timestamp_for_sorting(timestamp)}

\* C3: a manual-time candidate is validated against the state at its own timestamp: how
\* sign ends is the same with and without any of the person's events of the day that
\* lie after that timestamp.
C3_ValidatedAtOwnTimestamp ==
  \A name \in Names, action \in FormActions, manual_time \in ManualTimes :
    LET clock == ClockTicks[now]
        timestamp == SignTimestamp(clock, FALSE, manual_time)
    IN \A S \in SUBSET LaterToday(logs, clock, name, timestamp) :
         SignResult(Without(logs, S, 1), clock, name, action, timestamp).outcome
           = SignResult(logs, clock, name, action, timestamp).outcome

\* C3 witness: a backdated IN was accepted although a later IN of the person stands in the log
C3_Witness ==
  /\ resp.op = "sign" /\ resp.outcome = "saved" /\ resp.action = "IN"
  /\ resp.timestamp # SignTimestamp(ClockTicks[now], TRUE, NoneVal)
  /\ \E i \in 1..Len(logs) :
       /\ logs[i].name = resp.name /\ logs[i].action = "IN"
       /\ logs[i].timestamp.date = resp.timestamp.date
       /\ InstantOf(logs[i]) > parse_timestamp_for_sorting(resp.timestamp)

\* C4: a sign that ends in rule 1 or rule 2 leaves the stored list as it was.
C4_RejectLeavesLog ==
  [][(resp'.op = "sign" /\ resp'.outcome \in {"rule1", "rule2"}) => logs' = logs]_vars

\* C4 witness: a sign was rejected on a log that holds events
C4_Witness ==
  /\ resp.op = "sign" /\ resp.outcome \in {"rule1", "rule2"}
  /\ Len(logs) = MaxLogs

\* C5: in every reachable log the event at list position i has id i (from 0).
C5_IdsArePositions == \A i \in 1..Len(logs) : logs[i].id = i - 1

\* C5 witness: remove took the first of two events, and the survivor is renumbered to 0
C5_Witness ==
  /\ resp.op = "remove" /\ resp.arg = 0
  /\ Len(logs) = 1 /\ logs[1].id = 0

\* the positions of the events of ls in the bucket (name, date)
BucketOf(ls, name, date) ==
  {i \in 1..Len(ls) : ls[i].name = name /\ ls[i].timestamp.date = date}

\* the events at the positions P of ls, in (instant, id) order
InTotalOrder(ls, P) ==
  [r \in 1..Cardinality(P) |->
     ls[CHOOSE i \in P : Cardinality({j \in P : TotalOrderLess(ls[j], ls[i])}) = r - 1]]

\* the time an event shows: its time of day, the hour without a leading zero
DisplayTime(log) ==
  [hour |-> log.timestamp.hour, lz |-> FALSE, minute |-> log.timestamp.minute,
   ap |-> log.timestamp.ap]

\* the pendingIn rules; pendingIn is EmptyStr when the slot is empty
RECURSIVE PendingInScan(_, _, _)
PendingInScan(events, i, pendingIn) ==
  IF i > Len(events)
    THEN IF pendingIn # EmptyStr THEN <<<<pendingIn, EmptyStr>>>> ELSE <<>>
  ELSE IF events[i].action = "IN"
    THEN IF pendingIn # EmptyStr
           THEN <<<<pendingIn, EmptyStr>>>> \o PendingInScan(events, i + 1, DisplayTime(events[i]))
         ELSE PendingInScan(events, i + 1, DisplayTime(events[i]))
  ELSE IF pendingIn # EmptyStr
    THEN <<<<pendingIn, DisplayTime(events[i])>>>> \o PendingInScan(events, i + 1, EmptyStr)
  ELSE <<<<EmptyStr, DisplayTime(events[i])>>>> \o PendingInScan(events, i + 1, pendingIn)

\* the rows of the bucket (name, date) among rows, in the order they stand
RowsOf(rows, name, date) ==
  SelectSeq(rows, LAMBDA row : row[1] = name /\ row[2] = format_date_for_display(date))

\* the intervals of a sequence of rows (name, date, chunk), row after row
RECURSIVE IntervalsOf(_, _)
IntervalsOf(rows, r) ==
  IF r > Len(rows) THEN <<>> ELSE rows[r][3] \o IntervalsOf(rows, r + 1)

BucketsOf(ls) == {<<ls[i].name, ls[i].timestamp.date>> : i \in 1..Len(ls)}

\* C6: for each (name, date) bucket, the intervals group_logs_csv_style returns are those
\* of the pendingIn rules applied to the bucket's events in total order.
C6_PairingScan ==
  (resp.op = "group_logs_csv_style" /\ resp.outcome = "returned") =>
    \A key \in BucketsOf(logs) :
      IntervalsOf(RowsOf(resp.rows, key[1], key[2]), 1)
        = PendingInScan(InTotalOrder(logs, BucketOf(logs, key[1], key[2])), 1, EmptyStr)

\* C6 witness: one bucket whose scan met all the rules: a dangling OUT, a dangling IN, a
\* complete pair and a final dangling IN
C6_Witness ==
  /\ resp.op = "group_logs_csv_style"
  /\ Len(resp.rows) = 1
  /\ Len(resp.rows[1][3]) = 4
  /\ resp.rows[1][3][1][1] = EmptyStr /\ resp.rows[1][3][1][2] # EmptyStr
  /\ resp.rows[1][3][2][1] # EmptyStr /\ resp.rows[1][3][2][2] = EmptyStr
  /\ resp.rows[1][3][3][1] # EmptyStr /\ resp.rows[1][3][3][2] # EmptyStr
  /\ resp.rows[1][3][4][1] # EmptyStr /\ resp.rows[1][3][4][2] = EmptyStr

\* C7: a bucket whose pairing scan yields k intervals has ceil(k/4) rows, each of 1 to 4
\* intervals, all but the last of exactly 4, and the rows' intervals in order are the
\* bucket's interval list.
C7_RowsOfFour ==
  (resp.op = "group_logs_csv_style" /\ resp.outcome = "returned") =>
    \A key \in BucketsOf(logs) :
      LET pairs == BuildPairs(GroupedEvents(SortedLogs(logs), 1, key))
          rows == RowsOf(resp.rows, key[1], key[2])
      IN /\ Len(rows) = (Len(pairs) + 3) \div 4
         /\ \A r \in 1..Len(rows) :
              /\ Len(rows[r][3]) \in 1..4
              /\ r < Len(rows) => Len(rows[r][3]) = 4
         /\ IntervalsOf(rows, 1) = pairs

\* C7 witness: a bucket of five intervals in two rows, the second with exactly one
C7_Witness ==
  /\ resp.op = "group_logs_csv_style"
  /\ Len(resp.rows) = 2
  /\ resp.rows[1][1] = resp.rows[2][1] /\ resp.rows[1][2] = resp.rows[2][2]
  /\ Len(resp.rows[1][3]) = 4 /\ Len(resp.rows[2][3]) = 1

\* [name, displayDate, in1, out1, ..., in4, out4] of a row (name, displayDate, intervals)
ToFlatRow(row) ==
  <<row[1], row[2]>>
    \o [f \in 1..8 |->
          IF (f + 1) \div 2 <= Len(row[3]) THEN row[3][(f + 1) \div 2][2 - (f % 2)]
          ELSE EmptyStr]

ToFlatRows(rows) == [r \in 1..Len(rows) |-> ToFlatRow(rows[r])]

\* the flattened rows of group_logs_csv_style over the snapshot the request filters
GroupRowsFor(ls, args) ==
  ToFlatRows(group_logs_csv_style(ExportFilter(ls, args[1], args[2])).rows)

\* the rows of all the documents export_docx writes, document after document
RECURSIVE DocRows(_, _)
DocRows(docs, d) ==
  IF d > Len(docs) THEN <<>> ELSE docs[d].rows \o DocRows(docs, d + 1)

\* the rows of a display date among flat rows
OfDate(rows, date) == SelectSeq(rows, LAMBDA row : row[2] = date)

\* the DOCX route hands the writer, date by date, the flattened rows of that date
DocxRowsAreGroupRows ==
  (resp.op = "export_docx" /\ resp.outcome = "generated") =>
    LET want == GroupRowsFor(logs, resp.arg)
        got == DocRows(resp.rows, 1)
    IN /\ Len(got) = Len(want)
       /\ \A r \in 1..Len(want) : OfDate(got, want[r][2]) = OfDate(want, want[r][2])
       /\ \A d \in 1..Len(resp.rows) :
            \A r \in 1..Len(resp.rows[d].rows) :
              resp.rows[d].rows[r][2] = format_date_for_display(resp.rows[d].date)

\* C8: the rows the CSV route writes, and the rows the DOCX route hands to the writer, are
\* the flattened rows of group_logs_csv_style over the same filtered snapshot: every
\* bucket contributes all its rows.
C8_ExportRowsAreGroupRows ==
  /\ (resp.op = "export" /\ resp.outcome = "sent") => resp.rows = GroupRowsFor(logs, resp.arg)
  /\ DocxRowsAreGroupRows

\* C9: an empty event list gives no rows and no fault: group_logs_csv_style returns no
\* rows, and the CSV route over an empty or filtered-to-empty log completes and writes
\* no data row.
C9_EmptyLogNoFault ==
  /\ group_logs_csv_style(<<>>) = [raised |-> "", rows |-> <<>>]
  /\ (resp.op = "export" /\ ExportFilter(logs, resp.arg[1], resp.arg[2]) = <<>>)
       => (resp.outcome = "sent" /\ resp.rows = <<>>)

\* the flat rows a response of export or export_docx holds
ExportedRows ==
  IF resp.op = "export" THEN resp.rows
  ELSE IF resp.op = "export_docx" THEN DocRows(resp.rows, 1)
  ELSE <<>>

\* C10: every row produced for export has exactly 10 fields: name, display date, then the
\* four (timeIn, timeOut) slots of one row of the grouping, in order, the slots beyond its
\* intervals empty.
C10_TenFields ==
  \A r \in 1..Len(ExportedRows) :
    /\ Len(ExportedRows[r]) = 10
    /\ \E g \in 1..Len(GroupRowsFor(logs, resp.arg)) :
         ExportedRows[r] = GroupRowsFor(logs, resp.arg)[g]

\* C10 witness: the DOCX route handed over two rows, one of a complete pair and a
\* dangling IN with two empty slots, one of a single dangling OUT with three
C10_Witness ==
  /\ resp.op = "export_docx" /\ resp.outcome = "generated"
  /\ \E r, q \in 1..Len(ExportedRows) :
       /\ ExportedRows[r][3] # EmptyStr /\ ExportedRows[r][4] # EmptyStr
       /\ ExportedRows[r][5] # EmptyStr /\ ExportedRows[r][6] = EmptyStr
       /\ ExportedRows[r][7] = EmptyStr /\ ExportedRows[r][10] = EmptyStr
       /\ ExportedRows[q][3] = EmptyStr /\ ExportedRows[q][4] # EmptyStr
       /\ ExportedRows[q][5] = EmptyStr /\ ExportedRows[q][10] = EmptyStr

\* the intervals of all the rows of a result of group_logs_csv_style
IntervalSet(rows) ==
  UNION {{rows[r][3][k] : k \in 1..Len(rows[r][3])} : r \in 1..Len(rows)}

\* C11: every interval the pairing scan emits, for a list of events whose actions are
\* IN or OUT, has a time on at least one side: ("", "") is never emitted.
C11_NoEmptyInterval ==
  (/\ resp.op = "group_logs_csv_style"
   /\ resp.outcome = "returned"
   /\ \A i \in 1..Len(logs) : logs[i].action \in Actions)
  => \A pr \in IntervalSet(resp.rows) : ~(pr[1] = EmptyStr /\ pr[2] = EmptyStr)

\* a result that holds a dangling IN, a dangling OUT and a full interval
C11_Witness ==
  /\ resp.op = "group_logs_csv_style"
  /\ resp.outcome = "returned"
  /\ \A i \in 1..Len(logs) : logs[i].action \in Actions
  /\ \E pr \in IntervalSet(resp.rows) : pr[1] = EmptyStr /\ pr[2] # EmptyStr
  /\ \E pr \in IntervalSet(resp.rows) : pr[1] # EmptyStr /\ pr[2] = EmptyStr
  /\ \E pr \in IntervalSet(resp.rows) : pr[1] # EmptyStr /\ pr[2] # EmptyStr

\* C12: an rfid_scan of a registered card derives its action from the person's state at
\* the current instant over their events of today (OUT if that state is IN, otherwise IN),
\* and with that action it never ends in the "already signed IN" rejection (rule 2).
C12_AutoAction ==
  [][\A rfid_id \in RfidIds :
       (rfid_scan(rfid_id) /\ get_name_from_rfid(rfid_id) # "")
         => LET clock == ClockTicks[now]
                name == get_name_from_rfid(rfid_id)
                timestamp == SignTimestamp(clock, TRUE, NoneVal)
                priorState == PriorState(logs, clock, name, timestamp)
            IN /\ resp'.timestamp = timestamp
               /\ resp'.action = (IF priorState = "IN" THEN "OUT" ELSE "IN")
               /\ resp'.outcome # "rule2"]_vars

\* C12 witness: a scan found the person IN and signed them OUT
C12_Witness ==
  /\ resp.op = "rfid_scan" /\ resp.outcome = "saved"
  /\ resp.state = "IN" /\ resp.action = "OUT"
  /\ logs[Len(logs)].action = "OUT" /\ logs[Len(logs)].name = resp.name

\* the two validation rejections
Rejections == {"rule1", "rule2"}

\* C13: an rfid_scan whose card id is empty or has no registered name ends in the
\* "no card" / "not registered" outcome, which is neither validation rejection, and
\* leaves the list of events unchanged.
C13_UnregisteredCard ==
  [][\A rfid_id \in RfidIds :
       (rfid_scan(rfid_id) /\ rfid_id \notin DOMAIN load_rfid_cards)
         => /\ resp'.outcome = (IF rfid_id = "" THEN "no_card" ELSE "not_registered")
            /\ resp'.outcome \notin Rejections \cup {"saved"}
            /\ logs' = logs]_vars

\* C13 witness: an unregistered card was scanned on a log that holds events
C13_Witness ==
  /\ resp.op = "rfid_scan" /\ resp.outcome = "not_registered"
  /\ Len(logs) > 0

\* the events of ls that are the person's and whose timestamp falls on the date
OwnEventsOfDay(ls, name, date) ==
  SelectSeq(ls, LAMBDA log : log.name = name /\ log.timestamp.date = date)

\* C14: how validation ends for a person on a day (accepted or rejected in sign, the
\* action chosen in rfid_scan) depends only on that person's events of that day: it is
\* the same on the whole log as on the log cut down to those events.
C14_OnlyOwnEventsOfDay ==
  LET clock == ClockTicks[now]
  IN /\ \A name \in Names, action \in FormActions, use_current_time \in BOOLEAN,
           manual_time \in ManualInputs :
          LET timestamp == SignTimestamp(clock, use_current_time, manual_time)
          IN SignResult(logs, clock, name, action, timestamp).outcome
               = SignResult(OwnEventsOfDay(logs, name, clock.date),
                            clock, name, action, timestamp).outcome
     /\ \A name \in Names :
          LET timestamp == SignTimestamp(clock, TRUE, NoneVal)
          IN RfidAction(get_state_at_timestamp(TodaysLogsOf(logs, name, clock.date), timestamp))
               = RfidAction(get_state_at_timestamp(OwnEventsOfDay(logs, name, clock.date),
                                                   timestamp))

\* the rfid_scan half of C14, and the sign half on the logs where sign returns
C14_WhereSignReturns ==
  LET clock == ClockTicks[now]
  IN /\ \A name \in Names, action \in FormActions, use_current_time \in BOOLEAN,
           manual_time \in ManualInputs :
          LET timestamp == SignTimestamp(clock, use_current_time, manual_time)
          IN SignResult(logs, clock, name, action, timestamp).outcome # "raised"
               => SignResult(logs, clock, name, action, timestamp).outcome
                    = SignResult(OwnEventsOfDay(logs, name, clock.date),
                                 clock, name, action, timestamp).outcome
     /\ \A name \in Names :
          LET timestamp == SignTimestamp(clock, TRUE, NoneVal)
          IN RfidAction(get_state_at_timestamp(TodaysLogsOf(logs, name, clock.date), timestamp))
               = RfidAction(get_state_at_timestamp(OwnEventsOfDay(logs, name, clock.date),
                                                   timestamp))

\* the permutations of 1..n
Perms(n) == {f \in [1..n -> 1..n] : \A i, j \in 1..n : i # j => f[i] # f[j]}

Permuted(ls, f) == [i \in 1..Len(ls) |-> ls[f[i]]]

\* C15: on a list with pairwise-distinct ids the order by (parsed instant, id) is strict
\* and total, so the sorted list, the state at every target and the rows of
\* group_logs_csv_style are the same for every permutation of the list, events that
\* share a timestamp included.
C15_PermutationInvariant ==
  /\ \A i, j \in 1..Len(logs) :
        i # j => (SortKeyLess(logs[i], logs[j]) <=> ~SortKeyLess(logs[j], logs[i]))
  /\ \A f \in Perms(Len(logs)) :
       /\ SortedLogs(Permuted(logs, f)) = SortedLogs(logs)
       /\ \A timestamp \in ResolverTargets :
            get_state_at_timestamp(Permuted(logs, f), timestamp)
              = get_state_at_timestamp(logs, timestamp)
       /\ group_logs_csv_style(Permuted(logs, f)) = group_logs_csv_style(logs)

\* C15 witness: three events, an IN and an OUT of the same minute among them, handed
\* over against the order of their ids, and the state at that minute was asked for
C15_Witness ==
  /\ resp.op = "get_state_at_timestamp"
  /\ Len(logs) = MaxEvents
  /\ \E i, j \in 1..Len(logs) :
       /\ i < j /\ logs[i].id > logs[j].id
       /\ logs[i].action # logs[j].action
       /\ logs[i].timestamp = logs[j].timestamp
       /\ logs[i].timestamp = resp.timestamp
       /\ logs[i].timestamp.parts = 3
  /\ group_logs_csv_style(logs).raised = ""

\* the written forms of the two meridiems
Meridiems == {"AM", "PM", "am", "pm"}

\* a timestamp of the form "YYYY-MM-DD H:MM AP"
WellFormed(ts) ==
  /\ ts.parts = 3
  /\ ts.date >= 1
  /\ ts.hour \in 1..12
  /\ ts.minute \in 0..59
  /\ ts.ap \in Meridiems

\* C16: parse_timestamp_for_sorting returns a value for every string, and for every
\* timestamp that is not of the form "YYYY-MM-DD H:MM AP" (fewer than three fields, an
\* invalid date, an hour or minute that is no number or out of range, a meridiem other
\* than AM/PM) that value is the minimum instant, below that of every well-formed one.
C16_MalformedIsMinimum ==
  (resp.op = "parse_timestamp_for_sorting" /\ ~WellFormed(resp.timestamp))
    => /\ resp.outcome = "returned"
       /\ resp.arg = DatetimeMin
       /\ \A ts \in ParseArgs : WellFormed(ts) => resp.arg < parse_timestamp_for_sorting(ts)

\* the part of C16 the code keeps: fewer than three fields, an invalid date, an hour or
\* minute that is no number, a minute above 59 or a written hour above 23 give the minimum
C16_Caught ==
  (/\ resp.op = "parse_timestamp_for_sorting"
   /\ \/ resp.timestamp.parts < 3
      \/ resp.timestamp.date < 1
      \/ resp.timestamp.hour < 0
      \/ resp.timestamp.minute \notin (0..59) \cup {NoColon}
      \/ resp.timestamp.hour > 23)
    => resp.outcome = "returned" /\ resp.arg = DatetimeMin

\* C17: the core operations return a value on every list of events that have all their
\* fields, whatever the timestamps: neither get_state_at_timestamp nor
\* group_logs_csv_style ends in a fault, on a timestamp without a space for example.
C17_CoreIsTotal ==
  /\ resp.op = "get_state_at_timestamp" => resp.outcome = "returned"
  /\ group_logs_csv_style(logs).raised = ""

\* the part of C17 the code keeps: get_state_at_timestamp returns on every list, and
\* group_logs_csv_style on every list whose timestamps all hold a space
C17_TotalWithSpace ==
  /\ resp.op = "get_state_at_timestamp" => resp.outcome = "returned"
  /\ (\A i \in 1..Len(logs) : logs[i].timestamp.parts >= 2)
       => group_logs_csv_style(logs).raised = ""

\* the hour of the day of a written hour h in 1..12 under the meridiem ap
Hour24(h, ap) ==
  IF ap \in {"AM", "am"} THEN (IF h = 12 THEN 0 ELSE h)
  ELSE (IF h = 12 THEN 12 ELSE h + 12)

\* a is earlier on the wall clock than b: AM before PM, then 12 before 1..11, then the minute
WallClockLess(a, b) ==
  LET pmA == a.ap \in {"PM", "pm"}
      pmB == b.ap \in {"PM", "pm"}
  IN \/ ~pmA /\ pmB
     \/ pmA = pmB /\ (a.hour % 12) < (b.hour % 12)
     \/ pmA = pmB /\ (a.hour % 12) = (b.hour % 12) /\ a.minute < b.minute

\* C18: for a well-formed timestamp with hour h in 1..12 the parsed hour of the day is 0
\* for 12 AM, 12 for 12 PM, h + 12 for another PM hour and h for another AM hour, the
\* meridiem in either case of letters; so the instants of one date are ordered exactly
\* as the wall-clock times.
C18_HourOfDay ==
  (resp.op = "parse_timestamp_for_sorting" /\ WellFormed(resp.timestamp))
    => LET ts == resp.timestamp
       IN /\ resp.arg = ts.date * MinutesPerDay
                          + Hour24(ts.hour, ts.ap) * MinutesPerHour + ts.minute
          /\ \A other \in ParseArgs :
               (WellFormed(other) /\ other.date = ts.date)
                 => (parse_timestamp_for_sorting(other) < resp.arg
                       <=> WallClockLess(other, ts))

\* C18 witness: "12:30 am" was parsed to half an hour into its date
C18_Witness ==
  /\ resp.op = "parse_timestamp_for_sorting"
  /\ resp.timestamp.parts = 3 /\ resp.timestamp.date = 2
  /\ resp.timestamp.hour = 12 /\ resp.timestamp.minute = 30 /\ resp.timestamp.ap = "am"
  /\ resp.arg = 2 * MinutesPerDay + 30

\* C19: in every log the handlers can reach, every stored event has the action IN or OUT.
C19_ActionsInOrOut == \A i \in 1..Len(logs) : logs[i].action \in Actions

\* the part of C19 the code keeps: rfid_scan stores IN or OUT only
C19_RfidInOrOut ==
  [][(resp'.op = "rfid_scan" /\ resp'.outcome = "saved")
       => logs'[Len(logs')].action \in Actions]_vars

\* date, hour in 1..12 without leading zero, minute in 0..59, meridiem AM or PM
Decomposes(ts) ==
  /\ ts.parts = 3
  /\ ts.date >= 1
  /\ ts.hour \in 1..12 /\ ~ts.lz
  /\ ts.minute \in 0..59
  /\ ts.ap \in {"AM", "PM"}

\* C20: in every log the handlers can reach, every stored timestamp decomposes into a
\* date, an hour in 1..12 without leading zero, a minute in 0..59 and a meridiem AM or
\* PM, and none parses to the minimum instant.
C20_TimestampsDecompose ==
  \A i \in 1..Len(logs) :
    /\ Decomposes(logs[i].timestamp)
    /\ parse_timestamp_for_sorting(logs[i].timestamp) # DatetimeMin

\* the part of C20 the code keeps: the timestamp sign and rfid_scan append decomposes
C20_AppendedDecomposes ==
  [][(resp'.op \in {"sign", "rfid_scan"} /\ resp'.outcome = "saved")
       => /\ Decomposes(logs'[Len(logs')].timestamp)
          /\ parse_timestamp_for_sorting(logs'[Len(logs')].timestamp) # DatetimeMin]_vars

\* C21: edit(id, ts) overwrites the timestamp of the one event whose id matches, and
\* validates nothing; that event's id, name and action, every other event, the order and
\* the length of the list stay, and with no event of that id the list stays as it was.
C21_EditFrame ==
  [][\A log_id \in 0..MaxLogs, new_ts \in EditTimestamps :
       edit(log_id, new_ts)
         => /\ resp'.outcome = "saved"
            /\ Len(logs') = Len(logs)
            /\ \A i \in 1..Len(logs) :
                 IF logs[i].id = log_id
                   THEN logs'[i] = [id |-> logs[i].id, name |-> logs[i].name,
                                    action |-> logs[i].action, timestamp |-> new_ts]
                   ELSE logs'[i] = logs[i]
            /\ (\A i \in 1..Len(logs) : logs[i].id # log_id) => logs' = logs]_vars

\* C21 witness: the second of two events was edited to a timestamp the first does not have
C21_Witness ==
  /\ resp.op = "edit" /\ resp.arg = 1
  /\ Len(logs) = 2
  /\ logs[2].timestamp = resp.timestamp
  /\ logs[1].timestamp # resp.timestamp

\* the bucket of a row: its name and the date its display date stands for
RowBucket(row) == <<row[1], row[2].day>>

\* the position in ls of the first event of the bucket in (instant, id) order
FirstOfBucket(ls, key) ==
  CHOOSE i \in BucketOf(ls, key[1], key[2]) :
    \A j \in BucketOf(ls, key[1], key[2]) \ {i} : TotalOrderLess(ls[i], ls[j])

\* C22: the rows come bucket by bucket, in the order in which the first event of each
\* (name, date) bucket stands in the total order: the rows of one bucket are contiguous,
\* and a bucket whose first event sorts before that of another has its rows first;
\* the rows are not sorted again by name or by date.
C22_BucketOrder ==
  (resp.op = "group_logs_csv_style" /\ resp.outcome = "returned")
    => /\ \A r1, r2, r3 \in 1..Len(resp.rows) :
            (r1 < r2 /\ r2 < r3 /\ RowBucket(resp.rows[r1]) = RowBucket(resp.rows[r3]))
              => RowBucket(resp.rows[r2]) = RowBucket(resp.rows[r1])
       /\ \A r1, r2 \in 1..Len(resp.rows) :
            (r1 < r2 /\ RowBucket(resp.rows[r1]) # RowBucket(resp.rows[r2]))
              => TotalOrderLess(logs[FirstOfBucket(logs, RowBucket(resp.rows[r1]))],
                                logs[FirstOfBucket(logs, RowBucket(resp.rows[r2]))])
       /\ \A i \in 1..Len(logs) :
            \E r \in 1..Len(resp.rows) :
              RowBucket(resp.rows[r]) = <<logs[i].name, logs[i].timestamp.date>>

\* C22 witness: the list starts with A's afternoon event, and the rows start with B's
\* bucket, then come A's of day 1, then B's of day 2
C22_Witness ==
  /\ resp.op = "group_logs_csv_style" /\ resp.outcome = "returned"
  /\ Len(resp.rows) = 3
  /\ logs[1].name = "A"
  /\ RowBucket(resp.rows[1]) = <<"B", 1>>
  /\ RowBucket(resp.rows[2]) = <<"A", 1>>
  /\ RowBucket(resp.rows[3]) = <<"B", 2>>

\* the string f"{date} {time}" of a date and a displayed time
DateAndTime(date, t) ==
  [parts |-> IF t.ap = "" THEN 2 ELSE 3, date |-> date,
   hour |-> t.hour, lz |-> t.lz, minute |-> t.minute, ap |-> t.ap]

\* the events read back from the intervals k.. of a bucket: an IN for each timeIn, an OUT
\* for each timeOut, in interval order, numbered from n
RECURSIVE EventsOfIntervals(_, _, _, _, _)
EventsOfIntervals(name, date, pairs, k, n) ==
  IF k > Len(pairs) THEN <<>>
  ELSE LET in == IF pairs[k][1] # EmptyStr
                   THEN <<[id |-> n, name |-> name, action |-> "IN",
                           timestamp |-> DateAndTime(date, pairs[k][1])]>>
                 ELSE <<>>
           out == IF pairs[k][2] # EmptyStr
                    THEN <<[id |-> n + Len(in), name |-> name, action |-> "OUT",
                            timestamp |-> DateAndTime(date, pairs[k][2])]>>
                  ELSE <<>>
       IN in \o out \o EventsOfIntervals(name, date, pairs, k + 1, n + Len(in) + Len(out))

\* C23: round trip of grouping: for each bucket, the events read back from its intervals
\* (an IN for each non-empty timeIn, an OUT for each non-empty timeOut, in interval
\* order), grouped again, give the same list of intervals.
C23_RoundTrip ==
  (resp.op = "group_logs_csv_style" /\ resp.outcome = "returned")
    => \A key \in BucketsOf(logs) :
         LET pairs == IntervalsOf(RowsOf(resp.rows, key[1], key[2]), 1)
             again == group_logs_csv_style(EventsOfIntervals(key[1], key[2], pairs, 1, 0))
         IN again.raised = "" /\ IntervalsOf(again.rows, 1) = pairs

\* the part of C23 the code keeps: the round trip of a bucket whose times all hold a ":"
C23_RoundTripWithColon ==
  (/\ resp.op = "group_logs_csv_style" /\ resp.outcome = "returned"
   /\ \A i \in 1..Len(logs) : logs[i].timestamp.minute # NoColon)
    => \A key \in BucketsOf(logs) :
         LET pairs == IntervalsOf(RowsOf(resp.rows, key[1], key[2]), 1)
             again == group_logs_csv_style(EventsOfIntervals(key[1], key[2], pairs, 1, 0))
         IN again.raised = "" /\ IntervalsOf(again.rows, 1) = pairs

\* the person's events of the date, in total order, go IN, OUT, IN, ... from an IN
Alternates(ls, name, date) ==
  LET events == InTotalOrder(ls, BucketOf(ls, name, date))
  IN \A r \in 1..Len(events) : events[r].action = (IF r % 2 = 1 THEN "IN" ELSE "OUT")

\* no interval of the bucket lacks its IN, and none but the last lacks its OUT
NoDanglingInside(pairs) ==
  \A k \in 1..Len(pairs) :
    /\ pairs[k][1] # EmptyStr
    /\ k < Len(pairs) => pairs[k][2] # EmptyStr

\* C24: after any sequence of accepted sign requests, one at a time, manual times before
\* or after the stored events included, each person's events of one day in total order
\* alternate IN, OUT, IN, ... from an IN; so grouping them gives no dangling OUT and no
\* dangling IN but possibly the last interval.
C24_SignKeepsAlternation ==
  (\A i \in 1..Len(logs) : logs[i].action \in Actions)
    => \A key \in BucketsOf(logs) :
         /\ Alternates(logs, key[1], key[2])
         /\ NoDanglingInside(
              IntervalsOf(RowsOf(group_logs_csv_style(logs).rows, key[1], key[2]), 1))

\* C25: the load-validate-append-save sequence of sign and rfid_scan is not atomic.  As
\* long as no two requests have held a loaded log at the same time, every accepted event
\* is in the log and each person's day alternates; when both load before either saves, a
\* final log that misses one of the two accepted events is reachable (C25_Witness).
C25_SerialKeepsAll ==
  ~inflight.raced
    => /\ inflight.accepted = Len(logs)
       /\ (\A i \in 1..Len(logs) : logs[i].action \in Actions)
            => \A key \in BucketsOf(logs) : Alternates(logs, key[1], key[2])

\* C25 witness: two requests loaded the log before either saved, both were accepted and
\* have saved, and the log holds one event
C25_Witness ==
  /\ inflight.raced
  /\ \A r \in Slots : inflight.req[r].pc = "idle"
  /\ inflight.accepted = 2
  /\ Len(logs) = 1
  /\ resp.outcome = "saved"

\* C26: an accepted sign or rfid_scan appends exactly one event at the end of the list,
\* its id the length the list had, with the submitted name, action and timestamp; every
\* event stored before keeps its position, id, name, action and timestamp.
C26_AppendFrame ==
  [][(resp'.op \in {"sign", "rfid_scan"} /\ resp'.outcome = "saved")
       => /\ logs' = logs \o <<[id |-> Len(logs), name |-> resp'.name,
                                  action |-> resp'.action, timestamp |-> resp'.timestamp]>>
          /\ resp'.name \in Names
          /\ resp'.timestamp \in {SignTimestamp(ClockTicks[now], u, m) :
                                     u \in BOOLEAN, m \in ManualInputs}]_vars

\* C26 witness: a sign with a manual time was accepted on a log of one event
C26_Witness ==
  /\ resp.op = "sign" /\ resp.outcome = "saved"
  /\ Len(logs) = 2
  /\ logs[2] = [id |-> 1, name |-> resp.name, action |-> resp.action,
                 timestamp |-> resp.timestamp]
  /\ resp.timestamp # SignTimestamp(ClockTicks[now], TRUE, NoneVal)

\* the name, action and timestamp of the events of ls, in order
Contents(ls) ==
  [i \in 1..Len(ls) |->
     [name |-> ls[i].name, action |-> ls[i].action, timestamp |-> ls[i].timestamp]]

\* ls without the events of the id, their ids left as they are
FilteredOut(ls, log_id) == SelectSeq(ls, LAMBDA log : log.id # log_id)

\* C27: remove(id) on a log whose ids are positions deletes exactly the event of that id
\* and keeps name, action, timestamp and relative order of the others; renumbering keeps
\* the order of ids, so get_state_at_timestamp and group_logs_csv_style give on the
\* survivors what they give on the old list with the event filtered out; removing an id
\* that no event has leaves the list unchanged.
C27_RemoveFrame ==
  [][\A log_id \in 0..MaxRemove :
       (remove(log_id) /\ \A i \in 1..Len(logs) : logs[i].id = i - 1)
         => /\ Contents(logs') = Contents(FilteredOut(logs, log_id))
            /\ Len(logs') = IF log_id < Len(logs) THEN Len(logs) - 1 ELSE Len(logs)
            /\ group_logs_csv_style(logs') = group_logs_csv_style(FilteredOut(logs, log_id))
            /\ \A name \in Names, date \in 1..2, timestamp \in {T0900, T1305, T0010} :
                 get_state_at_timestamp(TodaysLogsOf(logs', name, date), timestamp)
                   = get_state_at_timestamp(TodaysLogsOf(FilteredOut(logs, log_id), name, date),
                                            timestamp)
            /\ log_id >= Len(logs) => logs' = logs]_vars

\* C27 witness: the second event was removed, and the two survivors are an IN and an OUT
\* of one person at the same minute
C27_Witness ==
  /\ resp.op = "remove" /\ resp.arg = 1
  /\ Len(logs) = 2
  /\ logs[1].name = logs[2].name
  /\ logs[1].timestamp = logs[2].timestamp
  /\ logs[1].action # logs[2].action
  /\ logs[1].timestamp.parts = 3

\* C28: when every event comes from sign with the current time or from rfid_scan, one
\* request at a time, under a clock that never goes back, with no edit and no remove,
\* each person's events of one day in total order alternate IN, OUT, IN, ... from an IN.
C28_NowKeepsAlternation ==
  \A key \in BucketsOf(logs) : Alternates(logs, key[1], key[2])

\* the part of C28 the code keeps: the same, as long as sign was sent IN and OUT only
C28_InOutAlternates ==
  (\A i \in 1..Len(logs) : logs[i].action \in Actions)
    => \A key \in BucketsOf(logs) : Alternates(logs, key[1], key[2])

\* C29: every rfid_scan of a registered card on a log whose ids are positions is
\* accepted: it appends exactly one event and flips the person's state at the current
\* instant (get_state_at_timestamp at "now" after the scan is the opposite of its value
\* before), so neither rejection is reached and repeated scans toggle IN, OUT, IN, ...
C29_ScanToggles ==
  [][\A rfid_id \in DOMAIN load_rfid_cards :
       (rfid_scan(rfid_id) /\ \A i \in 1..Len(logs) : logs[i].id = i - 1)
         => LET clock == ClockTicks[now]
                name == load_rfid_cards[rfid_id]
                timestamp == SignTimestamp(clock, TRUE, NoneVal)
                before == get_state_at_timestamp(TodaysLogsOf(logs, name, clock.date), timestamp)
                after == get_state_at_timestamp(TodaysLogsOf(logs', name, clock.date), timestamp)
            IN /\ resp'.outcome = "saved"
               /\ Len(logs') = Len(logs) + 1
               /\ SubSeq(logs', 1, Len(logs)) = logs
               /\ after # before
               /\ after = (IF before = "IN" THEN "OUT" ELSE "IN")]_vars

\* C29 witness: a scan signed the person OUT in the very minute of their IN
C29_Witness ==
  /\ resp.op = "rfid_scan" /\ resp.outcome = "saved"
  /\ Len(logs) = 2
  /\ logs[1].name = logs[2].name
  /\ logs[1].timestamp = logs[2].timestamp
  /\ logs[1].action = "IN" /\ logs[2].action = "OUT"

\* the non-empty entries of side s (1: timeIn, 2: timeOut) of the intervals, in order
SlotsOfSide(pairs, s) ==
  SelectSeq([k \in 1..Len(pairs) |-> pairs[k][s]], LAMBDA t : t # EmptyStr)

\* the displayed times of the events of the action, in order
TimesOfAction(events, action) ==
  LET chosen == SelectSeq(events, LAMBDA ev : ev.action = action)
  IN [k \in 1..Len(chosen) |-> DisplayTime(chosen[k])]

\* C30: the pairing scan conserves events: on a list of IN and OUT events every event
\* fills exactly one time slot (an IN a timeIn, an OUT a timeOut) in the rows of its own
\* (name, date) bucket, so the non-empty slots of all rows are as many as the events and
\* no interval holds events of two names or dates.
C30_EventsConserved ==
  (/\ resp.op = "group_logs_csv_style" /\ resp.outcome = "returned"
   /\ \A i \in 1..Len(logs) : logs[i].action \in Actions)
    => /\ \A key \in BucketsOf(logs) :
            LET pairs == IntervalsOf(RowsOf(resp.rows, key[1], key[2]), 1)
                events == InTotalOrder(logs, BucketOf(logs, key[1], key[2]))
            IN /\ SlotsOfSide(pairs, 1) = TimesOfAction(events, "IN")
               /\ SlotsOfSide(pairs, 2) = TimesOfAction(events, "OUT")
       /\ LET all == IntervalsOf(resp.rows, 1)
          IN Len(SlotsOfSide(all, 1)) + Len(SlotsOfSide(all, 2)) = Len(logs)
       /\ \A r \in 1..Len(resp.rows) : RowBucket(resp.rows[r]) \in BucketsOf(logs)

\* C30 witness: five events in three buckets, a pending IN overtaken by another IN among them
C30_Witness ==
  /\ resp.op = "group_logs_csv_style" /\ resp.outcome = "returned"
  /\ Len(logs) = 5
  /\ Cardinality(BucketsOf(logs)) = 3
  /\ \E r \in 1..Len(resp.rows) :
       /\ Len(resp.rows[r][3]) >= 2
       /\ resp.rows[r][3][1][2] = EmptyStr

\* the events of ls in the bucket (name, date), as the list they form
BucketEvents(ls, name, date) ==
  SelectSeq(ls, LAMBDA log : log.name = name /\ log.timestamp.date = date)

\* the last interval has no timeOut
LastIsOpen(pairs) == Len(pairs) > 0 /\ pairs[Len(pairs)][2] = EmptyStr

\* C31: the resolver and the grouper agree: for each (name, date) bucket of IN and OUT
\* events with distinct ids, the last interval of the pairing scan has an empty timeOut
\* if and only if get_state_at_timestamp over the bucket's events, at the timestamp of
\* the latest of them, is IN.
C31_ResolverAgreesWithGrouper ==
  (/\ resp.op = "group_logs_csv_style" /\ resp.outcome = "returned"
   /\ \A i \in 1..Len(logs) : logs[i].action \in Actions)
    => \A key \in BucketsOf(logs) :
         LET events == InTotalOrder(logs, BucketOf(logs, key[1], key[2]))
             latest == events[Len(events)]
         IN LastIsOpen(IntervalsOf(RowsOf(resp.rows, key[1], key[2]), 1))
              <=> get_state_at_timestamp(BucketEvents(logs, key[1], key[2]),
                                         latest.timestamp) = "IN"

\* C31 witness: one bucket ends open and another ends closed, and in the open one an
\* OUT and the IN that closes the day share their minute
C31_Witness ==
  /\ resp.op = "group_logs_csv_style" /\ resp.outcome = "returned"
  /\ \E key \in BucketsOf(logs) :
       ~LastIsOpen(IntervalsOf(RowsOf(resp.rows, key[1], key[2]), 1))
  /\ \E i, j \in 1..Len(logs) :
       /\ i < j
       /\ logs[i].name = logs[j].name /\ logs[i].timestamp = logs[j].timestamp
       /\ logs[i].action = "OUT" /\ logs[j].action = "IN"
       /\ logs[i].timestamp.parts = 3
       /\ LastIsOpen(IntervalsOf(RowsOf(resp.rows, logs[j].name, logs[j].timestamp.date), 1))
       /\ \A k \in 1..Len(logs) : ~TotalOrderLess(logs[j], logs[k]) \/ logs[k].name # logs[j].name
                                      \/ logs[k].timestamp.date # logs[j].timestamp.date

\* C32: for every manual 24-hour time (hour 0..23, minute 0..59) sent to sign, the
\* 12-hour timestamp it stores (hour 1..12 without leading zero, minute, AM/PM) parses
\* back through parse_timestamp_for_sorting to the same hour and minute, and it is the
\* string a sign with the current time stores when the clock reads that minute.
C32_ManualTimeRoundTrip ==
  (/\ resp.op = "sign_timestamp"
   /\ ~resp.arg.use_current_time
   /\ resp.arg.manual_time # NoneVal)
    => LET date == ClockTicks[now].date
           m == resp.arg.manual_time
       IN /\ Decomposes(resp.timestamp)
          /\ parse_timestamp_for_sorting(resp.timestamp)
               = date * MinutesPerDay + m.hour * MinutesPerHour + m.minute
          /\ resp.timestamp
               = SignTimestamp([date |-> date, hour |-> m.hour, minute |-> m.minute],
                               TRUE, NoneVal)

\* C32 witness: the manual time 12:05 was stored as 12:05 PM, five past noon
C32_Witness ==
  /\ resp.op = "sign_timestamp"
  /\ ~resp.arg.use_current_time
  /\ resp.arg.manual_time = [hour |-> 12, minute |-> 5]
  /\ resp.timestamp.hour = 12 /\ resp.timestamp.ap = "PM"
  /\ parse_timestamp_for_sorting(resp.timestamp)
       = ClockTicks[now].date * MinutesPerDay + 12 * MinutesPerHour + 5

====
